---- MODULE Spec2Model ----
(***************************************************************************)
(* Connection lifecycle and job execution protocol of the EmProps Redis    *)
(* worker (src/main.py).                                                   *)
(*                                                                         *)
(* Two cooperative tasks run on one event loop: the manager task           *)
(* (connect_to_hub, with handle_message and process_job awaited inline)    *)
(* and the heartbeat task (send_heartbeat).  A step of the model is the    *)
(* code between two suspension points of one task.  The hub and the        *)
(* transport are the environment: the hub delivers messages, the transport *)
(* can lose its outbound direction (every later send on the session        *)
(* raises) or be closed (sends raise and recv raises once the buffered     *)
(* messages are drained).  Time is discrete; Tick advances it only when    *)
(* both tasks are suspended.                                               *)
(***************************************************************************)
EXTENDS Naturals, Sequences, FiniteSets

\* ---- bounds of the model ----
\* payloads the websocket buffers at most
MaxBuffered == 1
\* job assignments the hub sends on one session at most
MaxJobs == 2
\* undecodable payloads the hub sends on one session at most
MaxInvalid == 2
\* heartbeats sent on one session at most; time stops when one more is due
MaxHeartbeats == 2
\* The heartbeat interval in seconds, read from the environment (the default
\* is 30); the model is run with a short interval.
HEARTBEAT_INTERVAL == 3

\* ---- program constants, in seconds ----
\* asyncio.sleep(5) of the reconnect loop
BACKOFF == 5
\* asyncio.sleep(5) of the simulated job
WORK == 5

VARIABLES
    pc,         \* position of the manager task in connect_to_hub/handle_message/process_job
    sess,       \* identity of the current websocket (two identities are enough: only the
                \* current websocket and the one the heartbeat task holds are ever used)
    link,       \* transport of the current session: "none", "up", "txdown", "down"
    avail,      \* whether the hub accepts new connections
    inbox,      \* payloads delivered to the current websocket and not yet returned by recv()
    out,        \* messages sent on the current session, in order
    job,        \* job_id of the job in execution or last executed on the session, else NoJob
    workOk,     \* whether the work step of that job returned normally
    hb,         \* position of the heartbeat task: "none", "send", "sleep", "done", "cancelled"
    hbSess,     \* the websocket the heartbeat task was given
    hbCancel,   \* heartbeat_task.cancel() was called and is not yet delivered
    mgrTimer,   \* seconds left of the manager's asyncio.sleep
    hbTimer,    \* seconds left of the heartbeat task's asyncio.sleep
    jobsSeen,       \* history: job_assignment payloads dispatched on the current session
    invalidLogged,  \* history: "Invalid JSON" events logged on the current session
    errored,        \* history: a send made under handle_message raised on the current session
    waited,         \* history: seconds the hub has been reachable, with no new fault,
                    \*          while no session is announced
    arrived,        \* history: job_ids of the assignments the hub sent on the current session
    ignored,        \* history: a decodable payload with another tag than job_assignment
                    \*          was dispatched on the current session
    jobLost,        \* history: a session ended with a job received on it whose outcome
                    \*          was not sent, and the receive loop of no later session
                    \*          has been entered yet
    up              \* history: seconds since the running heartbeat task was created

netVars == <<link, avail, inbox>>
jobVars == <<job, workOk>>
hbVars == <<hb, hbSess, hbCancel, hbTimer, up>>
histVars == <<jobsSeen, invalidLogged, errored, arrived, ignored>>

vars == <<pc, sess, netVars, out, jobVars, hbVars, mgrTimer, histVars, waited, jobLost>>

\* The job identifiers the hub assigns (opaque strings, every assignment of a
\* session with its own); NoJob is an absent job_id.
JobSeq == <<"job-1", "job-42", "job-7">>
JobIds == {JobSeq[n] : n \in 1..Len(JobSeq)}
NoJob == ""
\* The identifier of the n-th assignment the hub sends on a session.
JobId(n) == JobSeq[((n - 1) % Len(JobSeq)) + 1]

\* ---- outbound messages (worker_id and timestamp are left out) ----
WorkerStatus(status, job_id, caps) ==
    [type |-> "worker_status", status |-> status, job_id |-> job_id, caps |-> caps]

InitialStatus == WorkerStatus("idle", NoJob, TRUE)
BusyStatus(j) == WorkerStatus("busy", j, FALSE)
IdleStatus == WorkerStatus("idle", NoJob, FALSE)
Heartbeat == [type |-> "heartbeat", status |-> "", job_id |-> NoJob, caps |-> FALSE]
JobCompleted(j) == [type |-> "job_completed", status |-> "", job_id |-> j, caps |-> FALSE]
JobFailed(j) == [type |-> "job_failed", status |-> "", job_id |-> j, caps |-> FALSE]

\* ---- inbound payloads: decodable says whether json.loads accepts the payload ----
Payload(decodable, type, job_id) ==
    [decodable |-> decodable, type |-> type, job_id |-> job_id]

Malformed == Payload(FALSE, "", NoJob)
JobAssignment(j) == Payload(TRUE, "job_assignment", j)

InboundPayloads ==
    {Malformed,
     Payload(TRUE, "connection_established", NoJob),
     Payload(TRUE, "heartbeat_response", NoJob),
     Payload(TRUE, "other", NoJob)}
    \cup {JobAssignment(j) : j \in JobIds}

\* websocket.send returns normally iff the transport of the session is up in
\* the outbound direction; otherwise it raises.
SendOk == link = "up"

\* websocket.recv raises iff the connection is closed and nothing is buffered.
RecvRaises == link = "down" /\ inbox = <<>>

HbCount == Cardinality({i \in 1..Len(out) : out[i].type = "heartbeat"})

Init ==
    /\ pc = "connect"
    /\ sess = 0
    /\ link = "none"
    /\ avail \in BOOLEAN
    /\ inbox = <<>>
    /\ out = <<>>
    /\ job = NoJob
    /\ workOk = TRUE
    /\ hb = "none"
    /\ hbSess = 0
    /\ hbCancel = FALSE
    /\ mgrTimer = 0
    /\ hbTimer = 0
    /\ jobsSeen = 0
    /\ invalidLogged = 0
    /\ errored = FALSE
    /\ waited = 0
    /\ arrived = {}
    /\ ignored = FALSE
    /\ jobLost = FALSE
    /\ up = 0

\* ------------------------------------------------------------------------
\* connect_to_hub
\* ------------------------------------------------------------------------

\* Mutant of ConnectOk: the heartbeat task is created as soon as the session
\* is open, before the initial status is sent.
ConnectOk_HeartbeatFirst ==
    /\ pc = "connect"
    /\ avail
    /\ sess' = 1 - sess
    /\ link' = "up"
    /\ pc' = "send_initial"
    /\ hb' = "send"
    /\ hbSess' = 1 - sess
    /\ hbCancel' = FALSE
    /\ hbTimer' = 0
    /\ up' = 0
    /\ UNCHANGED <<avail, inbox, out, jobVars, mgrTimer, histVars, waited, jobLost>>

\* websockets.connect succeeds: the async with block is entered with a fresh
\* websocket.
ConnectOk ==
    /\ pc = "connect"
    /\ avail
    /\ sess' = 1 - sess
    /\ link' = "up"
    /\ pc' = "send_initial"
    /\ UNCHANGED <<avail, inbox, out, jobVars, hbVars, mgrTimer, histVars, waited, jobLost>>

\* Outcome reports sent on the current session.
Outcomes == Cardinality({i \in 1..Len(out) : out[i].type \in {"job_completed", "job_failed"}})

\* Some job received on the current session has no outcome report sent.
OutcomeMissing == jobsSeen > Outcomes

\* Mutant of Discard: the payloads buffered on the websocket are kept for the
\* next one.
Discard_KeepsBuffer ==
    /\ link' = "none"
    /\ inbox' = inbox
    /\ out' = <<>>
    /\ job' = NoJob
    /\ workOk' = TRUE
    /\ jobsSeen' = 0
    /\ invalidLogged' = 0
    /\ errored' = FALSE
    /\ arrived' = {}
    /\ ignored' = FALSE
    /\ jobLost' = (jobLost \/ OutcomeMissing)

\* The async with block is left: the websocket is closed and the session,
\* with what was buffered on it and the record of what was sent on it, is gone.
Discard ==
    /\ link' = "none"
    /\ inbox' = <<>>
    /\ out' = <<>>
    /\ job' = NoJob
    /\ workOk' = TRUE
    /\ jobsSeen' = 0
    /\ invalidLogged' = 0
    /\ errored' = FALSE
    /\ arrived' = {}
    /\ ignored' = FALSE
    /\ jobLost' = (jobLost \/ OutcomeMissing)

\* Mutant of Backoff: the delay is doubled.
Backoff_Doubled ==
    /\ pc' = "backoff"
    /\ mgrTimer' = BACKOFF + BACKOFF

\* The outer except: the error is logged, then asyncio.sleep(5).
Backoff ==
    /\ pc' = "backoff"
    /\ mgrTimer' = BACKOFF

\* websockets.connect raises: outer except.
ConnectFail ==
    /\ pc = "connect"
    /\ ~avail
    /\ Backoff
    /\ UNCHANGED <<sess, netVars, out, jobVars, hbVars, histVars, waited, jobLost>>

\* The initial worker_status (idle, with the capabilities) is sent.
SendInitialOk ==
    /\ pc = "send_initial"
    /\ SendOk
    /\ out' = Append(out, InitialStatus)
    /\ pc' = "start_hb"
    /\ waited' = 0
    /\ UNCHANGED <<sess, netVars, jobVars, hbVars, mgrTimer, histVars, jobLost>>

\* Mutant of SendInitialFail: the failed session is left as a finished one
\* is, without the backoff.
SendInitialFail_NoBackoff ==
    /\ pc = "send_initial"
    /\ ~SendOk
    /\ Discard
    /\ pc' = "connect"
    /\ UNCHANGED <<sess, avail, hbVars, mgrTimer, waited>>

\* The initial send raises: the async with block is left (the websocket is
\* closed) and the outer except backs off.
SendInitialFail ==
    /\ pc = "send_initial"
    /\ ~SendOk
    /\ Discard
    /\ Backoff
    /\ UNCHANGED <<sess, avail, hbVars, waited>>

\* asyncio.create_task(send_heartbeat(websocket)); the receive loop is entered.
StartHeartbeat ==
    /\ pc = "start_hb"
    /\ hb' = "send"
    /\ hbSess' = sess
    /\ hbCancel' = FALSE
    /\ hbTimer' = 0
    /\ up' = 0
    /\ pc' = "recv"
    /\ jobLost' = FALSE
    /\ UNCHANGED <<sess, netVars, out, jobVars, mgrTimer, histVars, waited>>

\* Mutant of handle_message: a tag the dispatcher does not know is an error
\* that ends the receive loop.
handle_message_UnknownTagRaises(m) ==
    IF ~m.decodable
    THEN /\ pc' = "recv"
         /\ invalidLogged' = invalidLogged + 1
         /\ UNCHANGED <<job, workOk, jobsSeen, ignored>>
    ELSE IF m.type = "job_assignment"
    THEN /\ pc' = "job_busy"
         /\ job' = m.job_id
         /\ workOk' = TRUE
         /\ jobsSeen' = jobsSeen + 1
         /\ UNCHANGED <<invalidLogged, ignored>>
    ELSE /\ pc' = IF m.type = "other" THEN "cancel_hb" ELSE "recv"
         /\ ignored' = TRUE
         /\ UNCHANGED <<job, workOk, jobsSeen, invalidLogged>>

\* Mutant of handle_message: a decode error is not caught by the dispatcher
\* and ends the receive loop.
handle_message_DecodeErrorPropagates(m) ==
    IF ~m.decodable
    THEN /\ pc' = "cancel_hb"
         /\ invalidLogged' = invalidLogged + 1
         /\ UNCHANGED <<job, workOk, jobsSeen, ignored>>
    ELSE IF m.type = "job_assignment"
    THEN /\ pc' = "job_busy"
         /\ job' = m.job_id
         /\ workOk' = TRUE
         /\ jobsSeen' = jobsSeen + 1
         /\ UNCHANGED <<invalidLogged, ignored>>
    ELSE /\ pc' = "recv"
         /\ UNCHANGED <<job, workOk, jobsSeen, invalidLogged>>

\* ------------------------------------------------------------------------
\* handle_message: the effect of dispatching payload m, up to the first
\* suspension point.  Every exception raised under it is caught and logged,
\* so the receive loop always goes on to the next recv.
\* ------------------------------------------------------------------------
handle_message(m) ==
    IF ~m.decodable
    THEN \* json.JSONDecodeError: "Invalid JSON" is logged
         /\ pc' = "recv"
         /\ invalidLogged' = invalidLogged + 1
         /\ UNCHANGED <<job, workOk, jobsSeen, ignored>>
    ELSE IF m.type = "job_assignment"
    THEN \* process_job is entered; its first suspension is the busy send
         /\ pc' = "job_busy"
         /\ job' = m.job_id
         /\ workOk' = TRUE
         /\ jobsSeen' = jobsSeen + 1
         /\ UNCHANGED <<invalidLogged, ignored>>
    ELSE \* connection_established, heartbeat_response, any other tag: log only
         /\ pc' = "recv"
         /\ ignored' = TRUE
         /\ UNCHANGED <<job, workOk, jobsSeen, invalidLogged>>

\* Mutant of Recv: the receive loop does not wait for the job in execution
\* (process_job run as a task of its own).
Recv_WhileJobRuns ==
    /\ pc \in {"recv", "job_work"}
    /\ inbox # <<>>
    /\ inbox' = Tail(inbox)
    /\ handle_message(Head(inbox))
    /\ UNCHANGED <<sess, link, avail, out, hbVars, mgrTimer, errored, arrived,
                   waited, jobLost>>

\* websocket.recv() returns the oldest buffered payload, which is dispatched.
Recv ==
    /\ pc = "recv"
    /\ inbox # <<>>
    /\ inbox' = Tail(inbox)
    /\ handle_message(Head(inbox))
    /\ UNCHANGED <<sess, link, avail, out, hbVars, mgrTimer, errored, arrived,
                   waited, jobLost>>

\* websocket.recv() raises: the inner except logs, the finally block runs.
RecvError ==
    /\ pc = "recv"
    /\ RecvRaises
    /\ pc' = "cancel_hb"
    /\ UNCHANGED <<sess, netVars, out, jobVars, hbVars, mgrTimer, histVars, waited, jobLost>>

\* finally: heartbeat_task.cancel()
CancelHeartbeat ==
    /\ pc = "cancel_hb"
    /\ hbCancel' = (hb \in {"send", "sleep"})
    /\ pc' = "await_hb"
    /\ UNCHANGED <<sess, netVars, out, jobVars, hb, hbSess, hbTimer, up, mgrTimer,
                   histVars, waited, jobLost>>

\* Mutant of AwaitHeartbeat: the cancelled task is not awaited.
AwaitHeartbeat_NotAwaited ==
    /\ pc = "await_hb"
    /\ pc' = "close"
    /\ UNCHANGED <<sess, netVars, out, jobVars, hbVars, mgrTimer, histVars, waited, jobLost>>

\* finally: await heartbeat_task returns, or raises CancelledError, passed.
AwaitHeartbeat ==
    /\ pc = "await_hb"
    /\ hb \in {"done", "cancelled"}
    /\ pc' = "close"
    /\ UNCHANGED <<sess, netVars, out, jobVars, hbVars, mgrTimer, histVars, waited, jobLost>>

\* The async with block is left without an exception: the websocket is
\* closed, the outer except is not entered, the while loop connects again.
CloseSession ==
    /\ pc = "close"
    /\ Discard
    /\ pc' = "connect"
    /\ UNCHANGED <<sess, avail, hbVars, mgrTimer, waited>>

\* asyncio.sleep(5) of the outer except is over: next iteration of the loop.
BackoffDone ==
    /\ pc = "backoff"
    /\ mgrTimer = 0
    /\ pc' = "connect"
    /\ UNCHANGED <<sess, netVars, out, jobVars, hbVars, mgrTimer, histVars, waited, jobLost>>

\* ------------------------------------------------------------------------
\* process_job
\* ------------------------------------------------------------------------

\* The busy status is sent; the try block is entered and the work starts.
SendBusyOk ==
    /\ pc = "job_busy"
    /\ SendOk
    /\ out' = Append(out, BusyStatus(job))
    /\ pc' = "job_work"
    /\ mgrTimer' = WORK
    /\ UNCHANGED <<sess, netVars, jobVars, hbVars, histVars, waited, jobLost>>

\* Mutant of SendBusyFail: the busy send is inside the try block, so its
\* failure is handled by the except branch.
SendBusyFail_InsideTry ==
    /\ pc = "job_busy"
    /\ ~SendOk
    /\ pc' = "job_failed"
    /\ errored' = TRUE
    /\ UNCHANGED <<sess, netVars, out, jobVars, hbVars, mgrTimer, jobsSeen,
                   invalidLogged, arrived, ignored, waited, jobLost>>

\* The busy send raises before the try block: process_job is left and the
\* exception is logged by handle_message.
SendBusyFail ==
    /\ pc = "job_busy"
    /\ ~SendOk
    /\ pc' = "recv"
    /\ errored' = TRUE
    /\ UNCHANGED <<sess, netVars, out, jobVars, hbVars, mgrTimer, jobsSeen,
                   invalidLogged, arrived, ignored, waited, jobLost>>

\* The work step returns.
WorkDone ==
    /\ pc = "job_work"
    /\ mgrTimer = 0
    /\ workOk' = TRUE
    /\ pc' = "job_completed"
    /\ UNCHANGED <<sess, netVars, out, job, hbVars, mgrTimer, histVars, waited, jobLost>>

\* The work step raises: the except branch is entered.  The placeholder of
\* the repository, asyncio.sleep(5), never raises; the step stands for the job
\* execution the design delegates to, which returns a result or raises.
WorkRaise ==
    /\ pc = "job_work"
    /\ mgrTimer = 0
    /\ workOk' = FALSE
    /\ pc' = "job_failed"
    /\ UNCHANGED <<sess, netVars, out, job, hbVars, mgrTimer, histVars, waited, jobLost>>

\* Mutant of SendCompletedOk: the report of a finished job is a job_failed.
SendCompletedOk_ReportsFailed ==
    /\ pc = "job_completed"
    /\ SendOk
    /\ out' = Append(out, JobFailed(job))
    /\ pc' = "job_idle"
    /\ UNCHANGED <<sess, netVars, jobVars, hbVars, mgrTimer, histVars, waited, jobLost>>

\* Mutant of SendCompletedOk: process_job returns after the report, without
\* the finally block.
SendCompletedOk_NoFinally ==
    /\ pc = "job_completed"
    /\ SendOk
    /\ out' = Append(out, JobCompleted(job))
    /\ pc' = "recv"
    /\ UNCHANGED <<sess, netVars, jobVars, hbVars, mgrTimer, histVars, waited, jobLost>>

\* job_completed is sent; the finally block follows.
SendCompletedOk ==
    /\ pc = "job_completed"
    /\ SendOk
    /\ out' = Append(out, JobCompleted(job))
    /\ pc' = "job_idle"
    /\ UNCHANGED <<sess, netVars, jobVars, hbVars, mgrTimer, histVars, waited, jobLost>>

\* The job_completed send raises inside the try block: the except branch.
SendCompletedFail ==
    /\ pc = "job_completed"
    /\ ~SendOk
    /\ pc' = "job_failed"
    /\ errored' = TRUE
    /\ UNCHANGED <<sess, netVars, out, jobVars, hbVars, mgrTimer, jobsSeen,
                   invalidLogged, arrived, ignored, waited, jobLost>>

\* Mutant of SendFailedOk: the failure is reported as a completion.
SendFailedOk_ReportsCompleted ==
    /\ pc = "job_failed"
    /\ SendOk
    /\ out' = Append(out, JobCompleted(job))
    /\ pc' = "job_idle"
    /\ UNCHANGED <<sess, netVars, jobVars, hbVars, mgrTimer, histVars, waited, jobLost>>

\* job_failed is sent; the finally block follows.
SendFailedOk ==
    /\ pc = "job_failed"
    /\ SendOk
    /\ out' = Append(out, JobFailed(job))
    /\ pc' = "job_idle"
    /\ UNCHANGED <<sess, netVars, jobVars, hbVars, mgrTimer, histVars, waited, jobLost>>

\* The job_failed send raises inside the except branch: finally still runs.
SendFailedFail ==
    /\ pc = "job_failed"
    /\ ~SendOk
    /\ pc' = "job_idle"
    /\ errored' = TRUE
    /\ UNCHANGED <<sess, netVars, out, jobVars, hbVars, mgrTimer, jobsSeen,
                   invalidLogged, arrived, ignored, waited, jobLost>>

\* finally: the idle status is sent; process_job and handle_message return.
SendIdleOk ==
    /\ pc = "job_idle"
    /\ SendOk
    /\ out' = Append(out, IdleStatus)
    /\ pc' = "recv"
    /\ UNCHANGED <<sess, netVars, jobVars, hbVars, mgrTimer, histVars, waited, jobLost>>

\* finally: the idle send raises; the exception leaves process_job and is
\* logged by handle_message, which returns to the receive loop.
SendIdleFail ==
    /\ pc = "job_idle"
    /\ ~SendOk
    /\ pc' = "recv"
    /\ errored' = TRUE
    /\ UNCHANGED <<sess, netVars, out, jobVars, hbVars, mgrTimer, jobsSeen,
                   invalidLogged, arrived, ignored, waited, jobLost>>

\* ------------------------------------------------------------------------
\* send_heartbeat
\* ------------------------------------------------------------------------

\* Mutant of MgrAwaiting: the work step blocks the event loop (time.sleep).
MgrAwaiting_JobBlocks == pc \notin {"start_hb", "cancel_hb", "job_work"}

\* The heartbeat task runs only while the manager task is at an await.
MgrAwaiting == pc \notin {"start_hb", "cancel_hb"}

\* Mutant of HbSendOk: the task sleeps two intervals.
HbSendOk_SleepsTwice ==
    /\ hb = "send"
    /\ ~hbCancel
    /\ MgrAwaiting
    /\ hbSess = sess
    /\ SendOk
    /\ HbCount < MaxHeartbeats
    /\ out' = Append(out, Heartbeat)
    /\ hb' = "sleep"
    /\ hbTimer' = HEARTBEAT_INTERVAL + HEARTBEAT_INTERVAL
    /\ UNCHANGED <<pc, sess, netVars, jobVars, hbSess, hbCancel, up, mgrTimer,
                   histVars, waited, jobLost>>

\* The heartbeat is sent, then asyncio.sleep(HEARTBEAT_INTERVAL).
HbSendOk ==
    /\ hb = "send"
    /\ ~hbCancel
    /\ MgrAwaiting
    /\ hbSess = sess
    /\ SendOk
    /\ HbCount < MaxHeartbeats
    /\ out' = Append(out, Heartbeat)
    /\ hb' = "sleep"
    /\ hbTimer' = HEARTBEAT_INTERVAL
    /\ UNCHANGED <<pc, sess, netVars, jobVars, hbSess, hbCancel, up, mgrTimer,
                   histVars, waited, jobLost>>

\* Mutant of HbSendFail: the heartbeat task closes the websocket when its
\* send fails.
HbSendFail_ClosesSession ==
    /\ hb = "send"
    /\ ~hbCancel
    /\ MgrAwaiting
    /\ ~(hbSess = sess /\ SendOk)
    /\ hb' = "done"
    /\ up' = 0
    /\ link' = IF link = "none" THEN "none" ELSE "down"
    /\ UNCHANGED <<pc, sess, avail, inbox, out, jobVars, hbSess, hbCancel, hbTimer,
                   mgrTimer, histVars, waited, jobLost>>

\* The send raises: the error is logged and the loop is left (break).
HbSendFail ==
    /\ hb = "send"
    /\ ~hbCancel
    /\ MgrAwaiting
    /\ ~(hbSess = sess /\ SendOk)
    /\ hb' = "done"
    /\ up' = 0
    /\ UNCHANGED <<pc, sess, netVars, out, jobVars, hbSess, hbCancel, hbTimer,
                   mgrTimer, histVars, waited, jobLost>>

\* asyncio.sleep(HEARTBEAT_INTERVAL) is over: next iteration.
HbWake ==
    /\ hb = "sleep"
    /\ hbTimer = 0
    /\ ~hbCancel
    /\ MgrAwaiting
    /\ hb' = "send"
    /\ UNCHANGED <<pc, sess, netVars, out, jobVars, hbSess, hbCancel, hbTimer, up,
                   mgrTimer, histVars, waited, jobLost>>

\* CancelledError is thrown into the task at its suspension point; it is no
\* Exception, so the task ends cancelled, without sending.
HbCancelled ==
    /\ hbCancel
    /\ hb \in {"send", "sleep"}
    /\ MgrAwaiting
    /\ hb' = "cancelled"
    /\ hbCancel' = FALSE
    /\ hbTimer' = 0
    /\ up' = 0
    /\ UNCHANGED <<pc, sess, netVars, out, jobVars, hbSess, mgrTimer, histVars,
                   waited, jobLost>>

\* ------------------------------------------------------------------------
\* environment: the hub, the transport, time
\* ------------------------------------------------------------------------

\* Number of buffered payloads with type tag t ("" for an undecodable one).
Buffered(t) == Cardinality({i \in 1..Len(inbox) : inbox[i].type = t})

\* The hub sends payload m on the session.
HubSend(m) ==
    /\ link \in {"up", "txdown"}
    /\ Len(inbox) < MaxBuffered
    /\ m.type = "job_assignment" =>
          /\ jobsSeen + Buffered("job_assignment") < MaxJobs
          /\ m.job_id = JobId(jobsSeen + Buffered("job_assignment") + 1)
    /\ ~m.decodable => invalidLogged + Buffered("") < MaxInvalid
    /\ inbox' = Append(inbox, m)
    /\ arrived' = IF m.type = "job_assignment" THEN arrived \cup {m.job_id} ELSE arrived
    /\ UNCHANGED <<pc, sess, link, avail, out, jobVars, hbVars, mgrTimer,
                   jobsSeen, invalidLogged, errored, ignored, waited, jobLost>>

\* The outbound direction of the session breaks: sends raise from now on.
OutboundFault ==
    /\ link = "up"
    /\ link' = "txdown"
    /\ waited' = 0
    /\ UNCHANGED <<pc, sess, avail, inbox, out, jobVars, hbVars,
                   mgrTimer, histVars, jobLost>>

\* The connection is closed under the worker.
Drop ==
    /\ link \in {"up", "txdown"}
    /\ link' = "down"
    /\ waited' = 0
    /\ UNCHANGED <<pc, sess, avail, inbox, out, jobVars, hbVars,
                   mgrTimer, histVars, jobLost>>

\* The hub goes away: an open connection is closed, new ones are refused.
HubDown ==
    /\ avail
    /\ avail' = FALSE
    /\ link' = IF link = "none" THEN "none" ELSE "down"
    /\ waited' = 0
    /\ UNCHANGED <<pc, sess, inbox, out, jobVars, hbVars, mgrTimer,
                   histVars, jobLost>>

\* The hub is back.
HubUp ==
    /\ ~avail
    /\ avail' = TRUE
    /\ waited' = 0
    /\ UNCHANGED <<pc, sess, link, inbox, out, jobVars, hbVars,
                   mgrTimer, histVars, jobLost>>

\* The manager task is suspended and time has to pass before it runs again.
MgrSuspended ==
    \/ pc = "recv" /\ inbox = <<>> /\ ~RecvRaises
    \/ pc \in {"backoff", "job_work"} /\ mgrTimer > 0

\* The heartbeat task is finished, or suspended until time passes.
HbSuspended ==
    \/ hb \in {"none", "done", "cancelled"}
    \/ hb = "sleep" /\ hbTimer > 0 /\ ~hbCancel

Dec(t) == IF t > 0 THEN t - 1 ELSE 0

\* The hub is reachable and the worker has no announced, unsevered session.
Unannounced ==
    /\ avail
    /\ \/ pc \in {"connect", "backoff", "send_initial"}
       \/ link = "down"

\* One second passes; both tasks are suspended.
Tick ==
    /\ MgrSuspended
    /\ HbSuspended
    /\ mgrTimer > 0 \/ hbTimer > 0
    /\ mgrTimer' = Dec(mgrTimer)
    /\ hbTimer' = Dec(hbTimer)
    /\ up' = IF hb \in {"send", "sleep"} THEN up + 1 ELSE 0
    /\ waited' = IF ~Unannounced THEN 0
                 ELSE IF waited <= BACKOFF THEN waited + 1 ELSE waited
    /\ UNCHANGED <<pc, sess, netVars, out, jobVars, hb, hbSess, hbCancel, histVars, jobLost>>

Manager ==
    \/ ConnectOk \/ ConnectFail \/ SendInitialOk \/ SendInitialFail \/ StartHeartbeat
    \/ Recv \/ RecvError \/ CancelHeartbeat \/ AwaitHeartbeat \/ CloseSession
    \/ BackoffDone
    \/ SendBusyOk \/ SendBusyFail \/ WorkDone \/ WorkRaise
    \/ SendCompletedOk \/ SendCompletedFail \/ SendFailedOk \/ SendFailedFail
    \/ SendIdleOk \/ SendIdleFail

HeartbeatTask == HbSendOk \/ HbSendFail \/ HbWake \/ HbCancelled

Environment ==
    \/ \E m \in InboundPayloads : HubSend(m)
    \/ Drop \/ OutboundFault \/ HubDown \/ HubUp

Next == Manager \/ HeartbeatTask \/ Environment \/ Tick

Spec == Init /\ [][Next]_vars

\* The event loop runs every task that is ready, and time passes.
FairSpec ==
    /\ Spec
    /\ WF_vars(Manager)
    /\ WF_vars(HeartbeatTask)
    /\ WF_vars(Tick)

\* ------------------------------------------------------------------------
\* What the hub observes on the current session
\* ------------------------------------------------------------------------

IsHeartbeat(m) == m.type = "heartbeat"
NotHeartbeat(m) == m.type # "heartbeat"
IsStatus(m) == m.type = "worker_status"

\* The messages of the session without the heartbeats.
NonHb == SelectSeq(out, NotHeartbeat)

\* The messages of the session that follow the initial status, heartbeats left out.
JobPart == IF NonHb = <<>> THEN <<>> ELSE Tail(NonHb)

\* The last n messages of sequence s (all of s when it is shorter).
LastN(s, n) == IF Len(s) <= n THEN s ELSE SubSeq(s, Len(s) - n + 1, Len(s))

\* busy(j), then job_completed(j) or job_failed(j), then idle.
IsBracket(s) ==
    /\ Len(s) = 3
    /\ \E j \in JobIds :
          /\ s[1] = BusyStatus(j)
          /\ s[2] \in {JobCompleted(j), JobFailed(j)}
          /\ s[3] = IdleStatus

\* A bracket cut short: nothing, busy(j), or busy(j) and the outcome of j.
IsBracketPrefix(s) ==
    \/ s = <<>>
    \/ \E j \in JobIds :
          \/ s = <<BusyStatus(j)>>
          \/ \E o \in {JobCompleted(j), JobFailed(j)} :
                s = <<BusyStatus(j), o>> \/ s = <<BusyStatus(j), o, IdleStatus>>

\* The status the hub saw last on the session.
Statuses == SelectSeq(out, IsStatus)
LastStatus == IF Statuses = <<>> THEN "" ELSE Statuses[Len(Statuses)].status

\* The one job assignment of the session was dispatched and process_job has returned.
OneJobReturned == jobsSeen = 1 /\ pc = "recv"

\* ------------------------------------------------------------------------
\* C1
\* ------------------------------------------------------------------------

\* C1 (as stated): on a session with exactly one job_assignment, once its
\* execution has returned, the messages it caused are exactly busy(job_id),
\* then job_completed or job_failed for that job_id, then idle, with nothing
\* but heartbeats between them.
C1_FullBracketAlways == OneJobReturned => IsBracket(JobPart)

\* C1 (amended): on a session with exactly one job_assignment the messages it
\* caused are at every moment a prefix of busy(job_id), outcome(job_id), idle,
\* with nothing but heartbeats between them, and they are the whole sequence
\* once the execution has returned with none of its sends having raised.
C1_Bracket ==
    /\ jobsSeen = 0 => JobPart = <<>>
    /\ jobsSeen = 1 => IsBracketPrefix(JobPart)
    /\ (OneJobReturned /\ ~errored) => IsBracket(JobPart)

\* A job ran to its end on a healthy session with a heartbeat sent in between.
C1_Witness ==
    /\ OneJobReturned
    /\ ~errored
    /\ IsBracket(JobPart)
    /\ \E i \in 1..Len(out) : \E k \in 1..Len(out) : \E n \in 1..Len(out) :
          /\ i < k /\ k < n
          /\ out[i].status = "busy"
          /\ IsHeartbeat(out[k])
          /\ out[n] = IdleStatus

\* ------------------------------------------------------------------------
\* C2
\* ------------------------------------------------------------------------

\* C2 (as stated): whenever process_job has returned on a session that is
\* not closed, the last status the worker emitted on it is not busy: every
\* busy status was followed by an idle status.  It is stated for the jobs
\* whose work step returned normally, so that a violation is one of the exit
\* paths on which only a result send raises.
C2_IdleRestored == (pc = "recv" /\ link # "down" /\ workOk) => LastStatus # "busy"

\* ------------------------------------------------------------------------
\* C3
\* ------------------------------------------------------------------------

\* C3: the first message of every session is the idle status with the
\* capabilities; until it is sent the heartbeat task is not running and no
\* inbound payload was dispatched, so neither a heartbeat nor a job message
\* precedes it.
C3_InitialStatusFirst ==
    /\ out # <<>> => out[1] = InitialStatus
    /\ pc = "send_initial" => (out = <<>> /\ hb \notin {"send", "sleep"})
    /\ pc \in {"send_initial", "start_hb"} =>
          (jobsSeen = 0 /\ invalidLogged = 0 /\ job = NoJob)

\* A session on which a heartbeat and a job message followed the initial status.
C3_Witness ==
    /\ Len(out) >= 3
    /\ out[1] = InitialStatus
    /\ \E i \in 2..Len(out) : IsHeartbeat(out[i])
    /\ \E i \in 2..Len(out) : out[i].status = "busy"

\* ------------------------------------------------------------------------
\* C4
\* ------------------------------------------------------------------------

\* C4 (as stated): the manager reaches a connect attempt, other than the
\* first one, only from the end of the backoff wait.
C4_BackoffBeforeReconnect ==
    [][(pc' = "connect" /\ pc # "connect") => (pc = "backoff" /\ mgrTimer = 0)]_vars

\* ------------------------------------------------------------------------
\* C5
\* ------------------------------------------------------------------------

\* C5 (as stated): once the heartbeat task of a session has ended on a send
\* failure, that session is eventually discarded.
C5_HeartbeatFailureEndsSession ==
    (hb = "done" /\ hbSess = sess /\ link # "none") ~> (link = "none")

\* ------------------------------------------------------------------------
\* C6
\* ------------------------------------------------------------------------

\* The heartbeat task has not finished.
HbRunning == hb \in {"send", "sleep"}

\* C6: when the session is torn down, and as long as there is no session,
\* the heartbeat task has finished; a heartbeat task that has not finished
\* holds the current websocket, which is not closed.
C6_HeartbeatStoppedBeforeTeardown ==
    /\ pc \in {"close", "connect", "backoff", "send_initial", "start_hb"} => ~HbRunning
    /\ HbRunning => (hbSess = sess /\ link # "none")

\* The receive loop has ended, the heartbeat task was cancelled before it
\* finished by itself, and the session is about to be closed.
C6_Witness == pc = "close" /\ hb = "cancelled" /\ hbSess = sess /\ link # "none"

\* ------------------------------------------------------------------------
\* C7
\* ------------------------------------------------------------------------

\* recv returns the head of the buffer, an undecodable payload.
MalformedDispatched ==
    /\ pc = "recv"
    /\ inbox # <<>>
    /\ ~Head(inbox).decodable
    /\ inbox' = Tail(inbox)

\* C7: dispatching an undecodable payload sends nothing, changes neither the
\* session nor the job state nor the heartbeat task, logs one event, and
\* leaves the manager in the receive loop, whatever was dispatched before.
C7_MalformedIgnored ==
    [][MalformedDispatched =>
          /\ pc' = "recv"
          /\ invalidLogged' = invalidLogged + 1
          /\ UNCHANGED <<sess, link, avail, out, jobVars, hbVars, mgrTimer,
                         jobsSeen, errored, ignored>>]_vars

\* Two undecodable payloads were dispatched and a later job assignment is
\* in execution on the same session.
C7_Witness ==
    /\ invalidLogged = 2
    /\ pc = "job_work"
    /\ job \in JobIds
    /\ link = "up"
    /\ out[Len(out)].status = "busy" \/ IsHeartbeat(out[Len(out)])

\* ------------------------------------------------------------------------
\* C8
\* ------------------------------------------------------------------------

\* The work step of the last job raised and process_job has returned.
FailedJobReturned == pc = "recv" /\ job \in JobIds /\ ~workOk

\* C8 (as stated): after a job whose work step raised, the session ends with
\* busy, job_failed for that job_id and idle.
C8_FailureReportedAlways ==
    FailedJobReturned =>
        LastN(NonHb, 3) = <<BusyStatus(job), JobFailed(job), IdleStatus>>

\* C8 (amended): a job whose work step raised is never reported completed;
\* process_job returns to the receive loop; and when none of its sends
\* raised, what it sent is busy, job_failed for that job_id, idle.
C8_WorkFailureContained ==
    /\ (~workOk /\ pc \in {"job_failed", "job_idle", "recv"}) =>
          /\ NonHb # <<>>
          /\ NonHb[Len(NonHb)].type # "job_completed"
          /\ Len(NonHb) >= 2 => NonHb[Len(NonHb) - 1].type # "job_completed"
    /\ ~workOk => pc \in {"job_failed", "job_idle", "recv", "cancel_hb", "await_hb", "close"}
    /\ (FailedJobReturned /\ ~errored) =>
          LastN(NonHb, 3) = <<BusyStatus(job), JobFailed(job), IdleStatus>>

\* A failed job was reported and the next payload is waiting to be dispatched.
C8_Witness ==
    /\ FailedJobReturned
    /\ ~errored
    /\ link = "up"
    /\ LastN(NonHb, 3) = <<BusyStatus(job), JobFailed(job), IdleStatus>>
    /\ inbox # <<>>

\* ------------------------------------------------------------------------
\* C9
\* ------------------------------------------------------------------------

\* C9 (as stated): after a send made during dispatch or job execution has
\* raised on a session, recv returns no further payload on that session.
C9_NoReceiveAfterSendError ==
    [][errored => ~(pc = "recv" /\ inbox # <<>> /\ inbox' = Tail(inbox))]_vars

\* ------------------------------------------------------------------------
\* C10
\* ------------------------------------------------------------------------

\* C10: while the hub stays reachable and no new fault occurs, the worker is
\* never without an announced session for more than one backoff interval,
\* and the manager is always inside its retry loop.
C10_ReannouncedWithinBackoff ==
    /\ waited <= BACKOFF
    /\ pc \in {"connect", "send_initial", "start_hb", "recv", "job_busy", "job_work",
               "job_completed", "job_failed", "job_idle", "cancel_hb", "await_hb",
               "close", "backoff"}
    /\ pc = "backoff" => mgrTimer <= BACKOFF

\* An earlier session was lost, the hub has been reachable for a whole
\* backoff interval, and the initial status of the new session is being sent.
C10_Witness ==
    /\ pc = "send_initial"
    /\ link = "up"
    /\ hb \in {"done", "cancelled"}
    /\ waited = BACKOFF

\* ------------------------------------------------------------------------
\* C11
\* ------------------------------------------------------------------------

\* The positions of the manager task inside process_job.
JobPcs == {"job_busy", "job_work", "job_completed", "job_failed", "job_idle"}

\* Messages of the current session equal to m.
CountOf(m) == Cardinality({i \in 1..Len(out) : out[i] = m})

\* Busy statuses sent on the current session.
BusyCount == Cardinality({i \in 1..Len(out) : out[i].status = "busy"})

\* C11: the first message of every session is the idle status without a
\* job_id; every message that carries a job_id carries one whose assignment
\* arrived on the same session; there are no more busy, outcome and idle
\* messages on a session than assignments received on it; and nothing of a
\* session, its buffered payloads and its job included, is left when the
\* session is gone.
C11_JobsDoNotSurviveReconnect ==
    /\ out # <<>> => out[1] = InitialStatus
    /\ \A i \in 1..Len(out) : out[i].job_id # NoJob => out[i].job_id \in arrived
    /\ BusyCount <= jobsSeen /\ Outcomes <= jobsSeen /\ CountOf(IdleStatus) <= jobsSeen
    /\ pc \in JobPcs => (job \in arrived /\ link # "none")
    /\ link = "none" => (arrived = {} /\ inbox = <<>> /\ out = <<>> /\ job = NoJob)

\* A session was lost with a job on it whose outcome was not sent; on the
\* next session the worker has announced itself idle, without a job_id, and
\* is about to enter the receive loop.
C11_Witness ==
    /\ jobLost
    /\ link = "up"
    /\ pc = "start_hb"
    /\ out = <<InitialStatus>>
    /\ job = NoJob

\* ------------------------------------------------------------------------
\* C12
\* ------------------------------------------------------------------------

\* C12: a job_completed is sent only for the job in execution and only when
\* its work step returned; a job_failed is sent only for the job in execution
\* and only when its work step raised.
C12_OutcomeMatchesWork ==
    [][\A j \in JobIds :
          /\ out' = Append(out, JobCompleted(j)) => (workOk /\ j = job /\ pc = "job_completed")
          /\ out' = Append(out, JobFailed(j)) => (~workOk /\ j = job /\ pc = "job_failed")]_vars

\* The work step of a job returned and job_completed was sent for it.
C12_Witness ==
    /\ workOk
    /\ pc = "job_idle"
    /\ out[Len(out)] = JobCompleted(job)

\* ------------------------------------------------------------------------
\* C13
\* ------------------------------------------------------------------------

\* recv returns the head of the buffer, a decodable payload whose tag is not
\* job_assignment ("other" stands for every tag the dispatcher does not know,
\* an absent one included: message.get("type") is then None).
IgnorableDispatched ==
    /\ pc = "recv"
    /\ inbox # <<>>
    /\ Head(inbox).decodable
    /\ Head(inbox).type # "job_assignment"
    /\ inbox' = Tail(inbox)

\* C13: dispatching connection_established, heartbeat_response or an unknown
\* tag sends nothing, changes neither the session nor the job state nor the
\* heartbeat task, and leaves the manager in the receive loop.
C13_OtherTagsIgnored ==
    [][IgnorableDispatched =>
          /\ pc' = "recv"
          /\ UNCHANGED <<sess, link, avail, out, jobVars, hbVars, mgrTimer,
                         jobsSeen, invalidLogged, errored>>]_vars

\* Such a payload was dispatched and a later job assignment is in execution
\* on the same session.
C13_Witness ==
    /\ ignored
    /\ invalidLogged = 0
    /\ pc = "job_work"
    /\ link = "up"

\* ------------------------------------------------------------------------
\* C14
\* ------------------------------------------------------------------------

\* No busy status is followed by another busy status.
NoBusyAfterBusy ==
    \A i \in 1..Len(Statuses) :
        (i < Len(Statuses) /\ Statuses[i].status = "busy")
            => Statuses[i + 1].status = "idle"

\* A step taken while the manager is inside process_job takes no payload from
\* the buffer and leaves the job in execution the same.
JobStepKeepsBuffer ==
    pc \in JobPcs =>
        /\ job' = job
        /\ jobsSeen' = jobsSeen
        /\ Len(inbox') >= Len(inbox)
        /\ inbox # <<>> => Head(inbox') = Head(inbox)

\* C14: in the statuses sent on a session a busy status is never followed by
\* another busy status; and while the manager is inside process_job no
\* payload is taken from the buffer and the job in execution stays the same.
C14_JobsSerial == []NoBusyAfterBusy /\ [][JobStepKeepsBuffer]_vars

\* A job assignment has arrived while another job is executing, and waits in
\* the buffer.
C14_Witness ==
    /\ pc = "job_work"
    /\ mgrTimer < WORK
    /\ jobsSeen = 1
    /\ link = "up"
    /\ inbox # <<>>
    /\ Head(inbox).type = "job_assignment"
    /\ Head(inbox).job_id # job

\* ------------------------------------------------------------------------
\* C15
\* ------------------------------------------------------------------------

\* Whole heartbeat intervals elapsed since the heartbeat task was created.
Elapsed == up \div HEARTBEAT_INTERVAL

\* C15: on a session that is up, the number of heartbeats sent since the
\* heartbeat task was created, T seconds ago, is floor(T / I) or
\* floor(T / I) + 1: it is floor(T / I) + 1 while the task sleeps, and
\* floor(T / I) at the instants a heartbeat is due and not yet sent.
C15_HeartbeatCadence ==
    (hb \in {"send", "sleep"} /\ hbSess = sess /\ link = "up") =>
        /\ HbCount \in {Elapsed, Elapsed + 1}
        /\ (hb = "sleep" /\ hbTimer > 0) => HbCount = Elapsed + 1
        /\ hb = "send" => (HbCount = Elapsed /\ up = HbCount * HEARTBEAT_INTERVAL)

\* A job is executing, more than one interval has elapsed and the second
\* heartbeat has been sent.
C15_Witness ==
    /\ pc = "job_work"
    /\ link = "up"
    /\ hb = "sleep"
    /\ up > HEARTBEAT_INTERVAL
    /\ HbCount = 2

\* ------------------------------------------------------------------------
\* C16
\* ------------------------------------------------------------------------

\* C16: while the work step of a job is suspended, the heartbeat task runs:
\* it wakes when its interval has elapsed, it sends the heartbeat that is due
\* (within the number of heartbeats the model follows), and the time of the
\* work step does not pass ahead of a heartbeat that is due.
C16_JobDoesNotBlockHeartbeat ==
    (pc = "job_work" /\ hbSess = sess /\ link = "up" /\ ~hbCancel) =>
        /\ (hb = "sleep" /\ hbTimer = 0) => ENABLED HbWake
        /\ (hb = "send" /\ HbCount < MaxHeartbeats) => ENABLED HbSendOk
        /\ hb = "send" => ~ENABLED Tick

\* One heartbeat was sent before the busy status of a job and one between the
\* busy status and the job_completed message.
C16_Witness ==
    \E i, j, k, l \in 1..Len(out) :
        /\ i < j /\ j < k /\ k < l
        /\ IsHeartbeat(out[i])
        /\ out[j].status = "busy"
        /\ IsHeartbeat(out[k])
        /\ out[l] = JobCompleted(out[j].job_id)

\* ------------------------------------------------------------------------
\* C17
\* ------------------------------------------------------------------------

\* What a step may do to the websocket.
SessionOwnedByManager ==
    /\ sess' # sess => (pc = "connect" /\ link = "none" /\ ~HbRunning)
    /\ HbCount' > HbCount => (hbSess = sess /\ link = "up")
    /\ (link # "none" /\ link' = "none") =>
          (pc \in {"close", "send_initial"} /\ pc' \in {"connect", "backoff"})
    /\ (hb' # hb \/ (pc' # pc /\ pc \in JobPcs \cup {"recv"})) =>
          UNCHANGED <<link, sess>>

\* C17: a heartbeat task that runs holds the current websocket, which is not
\* closed; a websocket is opened only when none is open and no heartbeat
\* task runs; a heartbeat is sent only on the current websocket; the
\* websocket is discarded only by the manager leaving the async with block;
\* and no step of the heartbeat task, the dispatcher or process_job changes
\* the state of the websocket.
C17_SingleSession ==
    [](HbRunning => (hbSess = sess /\ link # "none")) /\ [][SessionOwnedByManager]_vars

\* A later websocket is open and the heartbeat task created for it has sent
\* a heartbeat on it.
C17_Witness ==
    /\ sess = 0
    /\ link = "up"
    /\ hb = "sleep"
    /\ hbSess = sess
    /\ HbCount >= 1

\* ------------------------------------------------------------------------
\* C18
\* ------------------------------------------------------------------------

\* Every outcome report follows the busy status of its job; every idle status
\* of a job follows a message of the job.
BusyComesFirst ==
    \A i \in 1..Len(NonHb) :
        /\ NonHb[i].type \in {"job_completed", "job_failed"} =>
              (i > 1 /\ NonHb[i - 1] = BusyStatus(NonHb[i].job_id))
        /\ NonHb[i] = IdleStatus =>
              (i > 1 /\ NonHb[i - 1].job_id \in JobIds)

\* The step of the manager out of a busy send that raises.
BusyFailureReturns ==
    (pc = "job_busy" /\ pc' # pc /\ ~SendOk) =>
        /\ pc' = "recv"
        /\ UNCHANGED <<sess, link, inbox, out, jobVars, mgrTimer, hbVars>>

\* C18: when the busy send raises, the manager goes back to recv on the same
\* session without having sent anything and without starting the work step;
\* and on a session every outcome report follows the busy status of its job
\* and every idle status of a job follows its busy status or its outcome
\* report, so a job without busy status has no message at all.
C18_BusyFailureSkipsJob == []BusyComesFirst /\ [][BusyFailureReturns]_vars

\* The busy send of a job raised: nothing was sent for the job, the manager
\* is back in the receive loop and the next payload waits in the buffer.
C18_Witness ==
    /\ errored
    /\ pc = "recv"
    /\ jobsSeen = 1
    /\ job \in JobIds
    /\ JobPart = <<>>
    /\ inbox # <<>>

\* ------------------------------------------------------------------------
\* C19
\* ------------------------------------------------------------------------

\* While the initial status is being sent no heartbeat task runs and nothing
\* was received or sent on the session.
NothingBeforeInitial ==
    pc = "send_initial" =>
        (~HbRunning /\ jobsSeen = 0 /\ invalidLogged = 0 /\ ~ignored /\ out = <<>>)

\* The step of the manager out of an initial send that raises, and the steps
\* of the backoff wait.
InitialFailureBacksOff ==
    /\ (pc = "send_initial" /\ pc' # pc /\ ~SendOk) =>
          /\ pc' = "backoff"
          /\ mgrTimer' = BACKOFF
          /\ link' = "none"
          /\ inbox' = <<>>
          /\ out' = <<>>
          /\ UNCHANGED <<hb, hbSess, jobsSeen, invalidLogged, ignored>>
    /\ (pc = "backoff" /\ pc' # pc) => (pc' = "connect" /\ mgrTimer = 0)
    /\ (pc = "backoff" /\ mgrTimer' # mgrTimer) => mgrTimer' = mgrTimer - 1

\* C19: while the initial status is being sent no heartbeat task runs and
\* nothing has been received on the session; when the send raises, the
\* session is discarded with what was buffered on it, no heartbeat task is
\* created, and the manager starts the backoff wait; the wait ends, after the
\* whole interval, in a connect attempt.
C19_InitialSendFailure == []NothingBeforeInitial /\ [][InitialFailureBacksOff]_vars

\* The only websocket opened so far was discarded before a heartbeat task was
\* created, the backoff wait is over and the next connect attempt is made.
C19_Witness ==
    /\ pc = "connect"
    /\ sess = 1
    /\ hb = "none"
    /\ link = "none"
    /\ mgrTimer = 0

====
